---- MODULE Spec2Model ----
(***************************************************************************)
(* A model of bot.py: the per-chat daily usage tracker (UsageTracker), the *)
(* bounded conversation memory and provider call of AIChat.respond, and    *)
(* the aiogram handlers that use them.  Handlers are asyncio coroutines:   *)
(* one action is the code a handler runs between two awaits.               *)
(***************************************************************************)
EXTENDS Integers, Sequences, FiniteSets, TLC

VARIABLES
    usage,        \* UsageTracker.usage: key string -> count
    pro_groups,   \* UsageTracker.pro_groups: set of str(chat_id)
    usage_file,   \* DATA_DIR/usage.json
    pro_file,     \* DATA_DIR/pro_groups.json
    memory,       \* AIChat.memory: chat_id -> list of turns
    provider,     \* AIChat.provider (AI_PROVIDER)
    day,          \* the UTC wall clock, in days since 2024-12-31
    hs,           \* the running handler coroutines and their locals
    nEvents,      \* updates delivered so far (the next message's number)
    recorded,     \* history: record() calls per <<chat_id, day>>
    hist,         \* history: every turn appended to memory, per chat_id
    requests      \* history: outbound provider requests issued, per chat_id

vars == <<usage, pro_groups, usage_file, pro_file, memory, provider, day, hs,
          nEvents, recorded, hist, requests>>

-----------------------------------------------------------------------------
(* Bounds of the model *)

\* handler coroutines that can be in flight at once
NHandlers == 2
\* updates delivered in one behaviour of Spec
MaxEvents == 3
\* the clock runs from day 0 to day MaxDay
MaxDay == 1
\* /ask updates delivered in one behaviour of SpecMem
MaxCalls == 3
\* /ask updates delivered before a behaviour of SpecMem starts: up to MaxPast
MaxPast == 10

(* Configuration and program constants *)

\* FREE_LIMIT = int(os.environ.get("FREE_LIMIT", "50"))
FREE_LIMIT == 2
\* ADMIN_ID = int(os.environ.get("ADMIN_ID", ...)): the operator's user id
ADMIN_ID == 5720
\* self.max_memory
max_memory == 20
\* the slice [-10:] of respond
ContextWindow == 10
\* the value can_use reports for a pro group
ProRemaining == 999

\* a user that is not the operator
OtherUser == 77
Users == {ADMIN_ID, OtherUser}
\* a private chat (its id is the user's) and a group chat
PrivateChat == 77
GroupChat == -1001
Chats == {PrivateChat, GroupChat}
Handlers == 1..NHandlers
Providers == {"anthropic", "openai", "local"}
BotUsername == "gendolf_bot"
Mention == "@" \o BotUsername

Fallback == "AI temporarily unavailable. Try again in a moment."
UnknownProvider == "Unknown AI provider configured."

-----------------------------------------------------------------------------
(* Helpers: Python built-ins *)

Max(a, b) == IF a >= b THEN a ELSE b
Min(a, b) == IF a <= b THEN a ELSE b

\* dict.get(key, default)
Get(d, k, default) == IF k \in DOMAIN d THEN d[k] ELSE default

\* d[k] = v on a dict
Put(d, k, v) == [x \in DOMAIN d \cup {k} |-> IF x = k THEN v ELSE d[x]]

\* str(chat_id)
Str(n) == ToString(n)

\* two-digit decimal, as strftime's %m and %d
Pad2(n) == IF n < 10 THEN "0" \o ToString(n) ELSE ToString(n)

\* datetime.strftime("%Y-%m-%d") of the day d days after 2024-12-31
DateStr(d) == IF d = 0 THEN "2024-12-31" ELSE "2025-01-" \o Pad2(d)

\* UsageTracker._today
Today == DateStr(day)

\* the key without the day: one rolling counter per chat
Key_NoDay(chat_id, today) == Str(chat_id)

\* f"{chat_id}:{today}"
Key(chat_id, today) == Str(chat_id) \o ":" \o today

\* seq[-n:] for n > 0
LastN(seq, n) == SubSeq(seq, Max(1, Len(seq) - n + 1), Len(seq))

\* " ".join(words)
RECURSIVE Join(_)
Join(words) ==
    IF Len(words) = 0 THEN ""
    ELSE IF Len(words) = 1 THEN words[1]
    ELSE words[1] \o " " \o Join(Tail(words))

-----------------------------------------------------------------------------
(* Storage: json.dumps / json.loads of the two files *)

NoFile == [exists |-> FALSE, text |-> {}]

\* json.dumps(self.usage): an object, one member per key
DumpUsage(u) == [exists |-> TRUE, text |-> {<<k, u[k]>> : k \in DOMAIN u}]

\* json.loads(self.file.read_text())
LoadUsage(f) ==
    [k \in {m[1] : m \in f.text} |-> (CHOOSE m \in f.text : m[1] = k)[2]]

\* the lists list(self.pro_groups) can be: the set's members in any order
ListsOf(s) ==
    {q \in [1..Cardinality(s) -> s] : {q[i] : i \in DOMAIN q} = s}

\* set(json.loads(self.pro_file.read_text()))
LoadPro(f) == {f.text[i] : i \in DOMAIN f.text}

-----------------------------------------------------------------------------
(* UsageTracker *)

\* can_use with "remaining >= 0" for "remaining > 0"
can_use_AtZero(chat_id) ==
    IF Str(chat_id) \in pro_groups
    THEN <<TRUE, ProRemaining>>
    ELSE LET used == Get(usage, Key(chat_id, Today), 0)
             remaining == Max(0, FREE_LIMIT - used)
         IN <<remaining >= 0, remaining>>

\* can_use with the counter looked at before the pro set
can_use_CounterFirst(chat_id) ==
    LET used == Get(usage, Key(chat_id, Today), 0)
        remaining == Max(0, FREE_LIMIT - used)
    IN IF remaining = 0 THEN <<FALSE, 0>>
       ELSE IF Str(chat_id) \in pro_groups THEN <<TRUE, ProRemaining>>
       ELSE <<TRUE, remaining>>

\* can_use with the limit itself still allowed: FREE_LIMIT + 1 - used
can_use_Inclusive(chat_id) ==
    IF Str(chat_id) \in pro_groups
    THEN <<TRUE, ProRemaining>>
    ELSE LET used == Get(usage, Key(chat_id, Today), 0)
             remaining == Max(0, FREE_LIMIT + 1 - used)
         IN <<remaining > 0, remaining>>

\* can_use(chat_id), the clock reading today
can_use(chat_id) ==
    IF Str(chat_id) \in pro_groups
    THEN <<TRUE, ProRemaining>>
    ELSE LET used == Get(usage, Key(chat_id, Today), 0)
             remaining == Max(0, FREE_LIMIT - used)
         IN <<remaining > 0, remaining>>

\* record with the count written as 1, the stored count not read
Recorded_NoRead(u, chat_id, today) == Put(u, Key(chat_id, today), 1)

\* record with 1 for 0 as the count of a key not yet stored
Recorded_FromOne(u, chat_id, today) ==
    Put(u, Key(chat_id, today), Get(u, Key(chat_id, today), 1) + 1)

\* the table after record(chat_id), the clock reading today
Recorded(u, chat_id, today) ==
    Put(u, Key(chat_id, today), Get(u, Key(chat_id, today), 0) + 1)

\* the set after add_pro(chat_id)
AddPro(p, chat_id) == p \cup {Str(chat_id)}

\* k.endswith(suffix)
EndsWith(k, suffix) ==
    /\ Len(k) >= Len(suffix)
    /\ SubSeq(k, Len(k) - Len(suffix) + 1, Len(k)) = suffix

\* sum(v for v in u.values()), over the keys in keys
RECURSIVE SumValues(_, _)
SumValues(u, keys) ==
    IF keys = {} THEN 0
    ELSE LET k == CHOOSE x \in keys : TRUE
         IN u[k] + SumValues(u, keys \ {k})

\* get_stats with the total taken over today's keys only
get_stats_TodayOnly(today) ==
    LET todays == {k \in DOMAIN usage : EndsWith(k, ":" \o today)}
    IN [active_groups_today |-> Cardinality(todays),
        total_messages |-> SumValues(usage, todays),
        pro_groups |-> Cardinality(pro_groups)]

\* get_stats(), the clock reading today
get_stats(today) ==
    [active_groups_today |->
         Cardinality({k \in DOMAIN usage : EndsWith(k, ":" \o today)}),
     total_messages |-> SumValues(usage, DOMAIN usage),
     pro_groups |-> Cardinality(pro_groups)]

-----------------------------------------------------------------------------
(* AIChat *)

UserTurn(user_name, message) ==
    [role |-> "user", name |-> user_name, content |-> message]

AssistantTurn(resp) == [role |-> "assistant", content |-> resp]

\* the cut taken from the front: [:self.max_memory]
Truncated_KeepFirst(turns) == SubSeq(turns, 1, Min(Len(turns), max_memory))

\* self.memory[chat_id][-self.max_memory:]
Truncated(turns) == LastN(turns, max_memory)

\* respond, "Add to memory": the chat's list after the append and the cut
UserAppended(turns, user_name, message) ==
    LET added == Append(turns, UserTurn(user_name, message))
    IN IF Len(added) > max_memory THEN Truncated(added) ELSE added

\* one entry of respond's messages list
Formatted(m) ==
    IF m.role = "user"
    THEN [role |-> "user", content |-> "[" \o m.name \o "]: " \o m.content]
    ELSE [role |-> "assistant", content |-> m.content]

\* the context taken from the front: [:10]
Recent_First(turns) == SubSeq(turns, 1, Min(Len(turns), ContextWindow))

\* self.memory[chat_id][-10:]
Recent(turns) == LastN(turns, ContextWindow)

\* respond, "Build messages"
BuildMessages(turns) ==
    [i \in 1..Len(Recent(turns)) |-> Formatted(Recent(turns)[i])]

\* the answer stored right after the oldest user turn that has no answer
\* after it, so that user and assistant turns alternate
RECURSIVE AssistantAppended_Paired(_, _)
AssistantAppended_Paired(turns, resp) ==
    IF Len(turns) = 0 THEN <<AssistantTurn(resp)>>
    ELSE IF /\ Head(turns).role = "user"
            /\ (Len(turns) = 1 \/ turns[2].role = "user")
    THEN <<Head(turns), AssistantTurn(resp)>> \o Tail(turns)
    ELSE <<Head(turns)>> \o AssistantAppended_Paired(Tail(turns), resp)

\* respond, "Save response to memory"
AssistantAppended(turns, resp) == Append(turns, AssistantTurn(resp))

\* respond with the fallback saved to memory in the except branch
RespondEnd_SaveFallback(turns, ok, resp) ==
    AssistantAppended(turns, IF ok THEN resp ELSE Fallback)

\* respond after its await: the chat's list once the call has answered with
\* resp (ok) or raised
RespondEnd(turns, ok, resp) ==
    IF ok THEN AssistantAppended(turns, resp) ELSE turns

\* respond's system prompt, as far as it varies: the group's name
SystemPrompt(group_name) ==
    "You are Gendolf, a smart AI assistant in the Telegram group '"
        \o group_name \o "'."

\* the body _call_anthropic / _call_openai posts
Payload(prov, system, messages) ==
    IF prov = "anthropic"
    THEN [system |-> system, messages |-> messages]
    ELSE [messages |-> <<[role |-> "system", content |-> system]>> \o messages]

\* the text a provider that answers puts in its response
ReplyText(messages) == "re " \o messages[Len(messages)].content

-----------------------------------------------------------------------------
(* Incoming updates *)

\* message.from_user.full_name
FullName(u) == IF u = ADMIN_ID THEN "Daniel" ELSE ""

\* message.chat.title
Title(c) == IF c = GroupChat THEN "Team" ELSE ""

\* x or default
Or(x, default) == IF x = "" THEN default ELSE x

\* the word that makes the text of update number n its own
Word(n) == "m" \o ToString(n)

\* text.replace(old, "", 1).strip(), on the words of the text
RECURSIVE ReplaceFirst(_, _)
ReplaceFirst(words, old) ==
    IF Len(words) = 0 THEN <<>>
    ELSE IF Head(words) = old THEN Tail(words)
    ELSE <<Head(words)>> \o ReplaceFirst(Tail(words), old)

\* text.replace(old, "").strip(), on the words of the text
RECURSIVE ReplaceAll(_, _)
ReplaceAll(words, old) ==
    IF Len(words) = 0 THEN <<>>
    ELSE IF Head(words) = old THEN ReplaceAll(Tail(words), old)
    ELSE <<Head(words)>> \o ReplaceAll(Tail(words), old)

AskQuotaNotice == "Daily free limit (" \o ToString(FREE_LIMIT)
    \o " messages) reached. Upgrade to Pro for unlimited: /upgrade"
PrivateQuotaNotice == "Daily limit reached. /upgrade for unlimited."
GroupQuotaNotice == "Daily free limit (" \o ToString(FREE_LIMIT)
    \o ") reached for this group. Admin can upgrade: /upgrade"
QuotaNotices == {AskQuotaNotice, PrivateQuotaNotice, GroupQuotaNotice}
\* texts that start with "/" and match no command filter
SlashWords == {"/foo"}
AskUsage == "Usage: /ask <your question>"
AdminProUsage == "Usage: /admin_pro <chat_id>"

-----------------------------------------------------------------------------
(* Handler coroutines.  pc is the await a handler is suspended at:         *)
(*   "idle"  no handler in this slot                                       *)
(*   "me"    handle_message awaits message.bot.me()                        *)
(*   "call"  respond awaits the provider (run_in_executor)                 *)
(*   "done"  the handler has returned: resp is what it handed to           *)
(*           message.answer or .reply as its last statement, "" when it    *)
(*           returned without sending; the slot keeps its locals until     *)
(*           the next handler takes it                                     *)
(* outcome is history: how the handler's provider call ended, "reply" or   *)
(* "raised", "" while there is none.                                       *)

Idle == [pc |-> "idle", kind |-> "", chat |-> 0, from_user |-> 0,
         words |-> <<>>,
         reply_to_bot |-> FALSE, user_name |-> "", message |-> "",
         group_name |-> "", messages |-> <<>>, outcome |-> "", resp |-> ""]

\* the locals of a handler of kind `kind` that got `words` from user u in
\* chat c
Got(kind, c, u, words) ==
    [Idle EXCEPT !.kind = kind, !.chat = c, !.from_user = u, !.words = words]

\* no handler runs in slot h
Free(h) == hs[h].pc \in {"idle", "done"}

\* a new handler takes the first free slot
FreeSlot(h) ==
    /\ Free(h)
    /\ \A k \in Handlers : k < h => ~Free(k)

Supported == provider \in {"anthropic", "openai"}

\* the days the clock can read at a later call in the same step
LaterDays == {d \in {day, day + 1} : d <= MaxDay}

\* ai.respond up to its await: the user turn, the cut, the messages, and
\* either the request going out or the unknown-provider answer
RespondBegin(h, loc, user_name, message, group_name) ==
    LET c == loc.chat
        turns == UserAppended(memory[c], user_name, message)
        locals == [loc EXCEPT !.user_name = user_name, !.message = message,
                              !.group_name = group_name,
                              !.messages = BuildMessages(turns)]
    IN IF Supported
       THEN /\ memory' = [memory EXCEPT ![c] = turns]
            /\ hist' = [hist EXCEPT ![c] = Append(@, UserTurn(user_name, message))]
            /\ requests' = [requests EXCEPT ![c] = @ + 1]
            /\ hs' = [hs EXCEPT ![h] = [locals EXCEPT !.pc = "call"]]
       ELSE /\ memory' = [memory EXCEPT
                             ![c] = AssistantAppended(turns, UnknownProvider)]
            /\ hist' = [hist EXCEPT ![c] =
                           @ \o <<UserTurn(user_name, message),
                                  AssistantTurn(UnknownProvider)>>]
            /\ requests' = requests
            /\ hs' = [hs EXCEPT ![h] = [locals EXCEPT !.pc = "done",
                                                      !.resp = UnknownProvider]]

\* record without its call of self._save()
Record_NoSave(c, d) ==
    /\ day' = d
    /\ usage' = Recorded(usage, c, DateStr(d))
    /\ usage_file' = usage_file
    /\ recorded' = [recorded EXCEPT ![<<c, d>>] = @ + 1]

\* tracker.record(chat_id), the clock reading day d
Record(c, d) ==
    /\ day' = d
    /\ usage' = Recorded(usage, c, DateStr(d))
    /\ usage_file' = DumpUsage(usage')
    /\ recorded' = [recorded EXCEPT ![<<c, d>>] = @ + 1]

\* the quota check with tracker.record moved above it
CheckAndRespond_RecordFirst(h, loc, user_name, message, group_name, notice) ==
    \E d \in LaterDays :
        /\ Record(loc.chat, d)
        /\ IF ~can_use(loc.chat)[1]
           THEN /\ hs' = [hs EXCEPT ![h] = [loc EXCEPT !.pc = "done",
                                                       !.resp = notice]]
                /\ UNCHANGED <<memory, hist, requests>>
           ELSE RespondBegin(h, loc, user_name, message, group_name)

\* the quota check every replying handler makes: the notice, or record and
\* respond
CheckAndRespond(h, loc, user_name, message, group_name, notice) ==
    IF ~can_use(loc.chat)[1]
    THEN /\ hs' = [hs EXCEPT ![h] = [loc EXCEPT !.pc = "done", !.resp = notice]]
         /\ UNCHANGED <<usage, usage_file, memory, day, recorded, hist,
                        requests>>
    ELSE \E d \in LaterDays :
         /\ Record(loc.chat, d)
         /\ RespondBegin(h, loc, user_name, message, group_name)

\* cmd_ask; words are the words of message.text
CmdAsk(h, c, u, words) ==
    /\ FreeSlot(h)
    /\ nEvents' = nEvents + 1
    /\ UNCHANGED <<pro_groups, pro_file, provider>>
    /\ LET question == Join(ReplaceFirst(words, "/ask"))
           loc == Got("cmd_ask", c, u, words)
       IN IF question = ""
          THEN /\ hs' = [hs EXCEPT ![h] = [loc EXCEPT !.pc = "done",
                                                      !.resp = AskUsage]]
               /\ UNCHANGED <<usage, usage_file, memory, day, recorded, hist,
                              requests>>
          ELSE CheckAndRespond(h, loc, Or(FullName(u), "User"), question,
                               Or(Title(c), "Chat"), AskQuotaNotice)

\* handle_message in a private chat
PrivateText(h, u, words) ==
    /\ FreeSlot(h)
    /\ nEvents' = nEvents + 1
    /\ UNCHANGED <<pro_groups, pro_file, provider>>
    /\ IF Head(words) \in SlashWords
       THEN UNCHANGED <<usage, usage_file, memory, day, hs, recorded, hist,
                        requests>>
       ELSE CheckAndRespond(h, Got("handle_message", PrivateChat, u, words),
                            Or(FullName(u), "User"), Join(words),
                            "Private Chat", PrivateQuotaNotice)

\* handle_message in a group, up to await message.bot.me()
GroupText(h, u, words, reply_to_bot) ==
    /\ FreeSlot(h)
    /\ nEvents' = nEvents + 1
    /\ hs' = [hs EXCEPT ![h] =
                [Got("handle_message", GroupChat, u, words) EXCEPT
                    !.pc = "me", !.user_name = FullName(u),
                    !.reply_to_bot = reply_to_bot]]
    /\ UNCHANGED <<usage, pro_groups, usage_file, pro_file, memory, provider,
                   day, recorded, hist, requests>>

\* handle_message in a group, from bot.me() on, without the return for
\* messages that do not address the bot
GroupTextResume_NoFilter(h) ==
    /\ hs[h].pc = "me"
    /\ UNCHANGED <<pro_groups, pro_file, provider, nEvents>>
    /\ LET cleaned == Join(ReplaceAll(hs[h].words, Mention))
       IN CheckAndRespond(h, hs[h], Or(hs[h].user_name, "User"),
                          Or(cleaned, "Hi!"), Or(Title(hs[h].chat), "Group"),
                          GroupQuotaNotice)

\* handle_message in a group, from bot.me() on
GroupTextResume(h) ==
    /\ hs[h].pc = "me"
    /\ UNCHANGED <<pro_groups, pro_file, provider, nEvents>>
    /\ LET is_mentioned == \E i \in DOMAIN hs[h].words : hs[h].words[i] = Mention
           cleaned == Join(ReplaceAll(hs[h].words, Mention))
       IN IF ~is_mentioned /\ ~hs[h].reply_to_bot
          THEN /\ hs' = [hs EXCEPT ![h].pc = "done"]
               /\ UNCHANGED <<usage, usage_file, memory, day, recorded, hist,
                              requests>>
          ELSE CheckAndRespond(h, hs[h], Or(hs[h].user_name, "User"),
                               Or(cleaned, "Hi!"), Or(Title(hs[h].chat), "Group"),
                               GroupQuotaNotice)

\* the text cmd_stats answers with
StatsText(status, stats) ==
    "Stats. This group: " \o status
        \o ". Active groups today: " \o ToString(stats.active_groups_today)
        \o ". Total messages served: " \o ToString(stats.total_messages)

\* the text cmd_admin_stats answers with
AdminStatsText(stats, memory_groups) ==
    "Admin Stats: Active today: " \o ToString(stats.active_groups_today)
        \o ". Total msgs: " \o ToString(stats.total_messages)
        \o ". Pro groups: " \o ToString(stats.pro_groups)
        \o ". Memory groups: " \o ToString(memory_groups)

\* cmd_stats: can_use and get_stats each read the clock
CmdStats(h, c, u) ==
    /\ FreeSlot(h)
    /\ nEvents' = nEvents + 1
    /\ \E d \in LaterDays :
          LET remaining == can_use(c)[2]
              stats == get_stats(DateStr(d))
              is_pro == Str(c) \in pro_groups
              status == IF is_pro THEN "Pro"
                        ELSE "Free (" \o ToString(remaining) \o "/"
                                 \o ToString(FREE_LIMIT) \o " remaining today)"
          IN /\ day' = d
             /\ hs' = [hs EXCEPT ![h] =
                         [Got("cmd_stats", c, u, <<"/stats">>)
                             EXCEPT !.pc = "done",
                                    !.resp = StatsText(status, stats)]]
    /\ UNCHANGED <<usage, pro_groups, usage_file, pro_file, memory, provider,
                   recorded, hist, requests>>

\* len(ai.memory): the chats respond has touched since the start
MemoryGroups == Cardinality({c \in Chats : memory[c] # <<>>})

\* cmd_admin_stats
CmdAdminStats(h, u) ==
    /\ FreeSlot(h)
    /\ nEvents' = nEvents + 1
    /\ IF u # ADMIN_ID
       THEN UNCHANGED hs
       ELSE hs' = [hs EXCEPT ![h] =
                     [Got("cmd_admin_stats", 0, u, <<"/admin_stats">>)
                         EXCEPT !.pc = "done",
                                !.resp = AdminStatsText(get_stats(Today),
                                                        MemoryGroups)]]
    /\ UNCHANGED <<usage, pro_groups, usage_file, pro_file, memory, provider,
                   day, recorded, hist, requests>>

\* int(parts[1]): the integer a decimal string denotes, if it denotes one
IsInt(word) == \E c \in Chats : Str(c) = word
Int_(word) == CHOOSE c \in Chats : Str(c) = word

\* cmd_admin_pro without the test of message.from_user.id
CmdAdminPro_AnySender(h, u, words) ==
    /\ FreeSlot(h)
    /\ nEvents' = nEvents + 1
    /\ UNCHANGED <<usage, usage_file, memory, provider, day, recorded, hist,
                   requests>>
    /\ LET parts == words
       IN IF Len(parts) < 2
          THEN /\ hs' = [hs EXCEPT ![h] = [Got("cmd_admin_pro", 0, u, parts)
                                       EXCEPT !.pc = "done",
                                              !.resp = AdminProUsage]]
               /\ UNCHANGED <<pro_groups, pro_file>>
          ELSE IF ~IsInt(parts[2])
          THEN UNCHANGED <<pro_groups, pro_file, hs>>
          ELSE /\ pro_groups' = AddPro(pro_groups, Int_(parts[2]))
               /\ \E q \in ListsOf(pro_groups') :
                      pro_file' = [exists |-> TRUE, text |-> q]
               /\ hs' = [hs EXCEPT ![h] =
                           [Got("cmd_admin_pro", 0, u, parts)
                               EXCEPT !.pc = "done",
                                      !.resp = "Group " \o Str(Int_(parts[2]))
                                                 \o " upgraded to Pro"]]

\* cmd_admin_pro; words are the words of message.text
CmdAdminPro(h, u, words) ==
    /\ FreeSlot(h)
    /\ nEvents' = nEvents + 1
    /\ UNCHANGED <<usage, usage_file, memory, provider, day, recorded, hist,
                   requests>>
    /\ LET parts == words
       IN IF u # ADMIN_ID
          THEN UNCHANGED <<pro_groups, pro_file, hs>>
          ELSE IF Len(parts) < 2
          THEN /\ hs' = [hs EXCEPT ![h] = [Got("cmd_admin_pro", 0, u, parts)
                                       EXCEPT !.pc = "done",
                                              !.resp = AdminProUsage]]
               /\ UNCHANGED <<pro_groups, pro_file>>
          ELSE IF ~IsInt(parts[2])
          THEN \* int() raises ValueError: the handler ends there
               UNCHANGED <<pro_groups, pro_file, hs>>
          ELSE /\ pro_groups' = AddPro(pro_groups, Int_(parts[2]))
               /\ \E q \in ListsOf(pro_groups') :
                      pro_file' = [exists |-> TRUE, text |-> q]
               /\ hs' = [hs EXCEPT ![h] =
                           [Got("cmd_admin_pro", 0, u, parts)
                               EXCEPT !.pc = "done",
                                      !.resp = "Group " \o Str(Int_(parts[2]))
                                                 \o " upgraded to Pro"]]

\* the provider call ends, and after an exception respond posts the request
\* once more instead of returning the fallback
ProviderReturn_Retry(h, ok) ==
    /\ hs[h].pc = "call"
    /\ LET c == hs[h].chat
           resp == ReplyText(hs[h].messages)
       IN IF ok
          THEN /\ memory' = [memory EXCEPT ![c] = RespondEnd(@, ok, resp)]
               /\ hist' = [hist EXCEPT ![c] = RespondEnd(@, ok, resp)]
               /\ hs' = [hs EXCEPT ![h].pc = "done", ![h].outcome = "reply",
                                   ![h].resp = resp]
               /\ requests' = requests
          ELSE /\ requests' = [requests EXCEPT ![c] = @ + 1]
               /\ UNCHANGED <<memory, hist, hs>>
    /\ UNCHANGED <<usage, pro_groups, usage_file, pro_file, provider, day,
                   nEvents, recorded>>

\* the provider call ends, and a call that raised gives the chat its unit
\* of quota back
ProviderReturn_Refund(h, ok) ==
    /\ hs[h].pc = "call"
    /\ LET c == hs[h].chat
           resp == ReplyText(hs[h].messages)
           key == Key(c, Today)
       IN /\ memory' = [memory EXCEPT ![c] = RespondEnd(@, ok, resp)]
          /\ hist' = [hist EXCEPT ![c] = RespondEnd(@, ok, resp)]
          /\ hs' = [hs EXCEPT ![h].pc = "done",
                              ![h].outcome = IF ok THEN "reply" ELSE "raised",
                              ![h].resp = IF ok THEN resp ELSE Fallback]
          /\ usage' = IF ok \/ Get(usage, key, 0) = 0 THEN usage
                      ELSE Put(usage, key, usage[key] - 1)
          /\ usage_file' = IF usage' = usage THEN usage_file
                           ELSE DumpUsage(usage')
    /\ UNCHANGED <<pro_groups, pro_file, provider, day, nEvents, recorded,
                   requests>>

\* the provider call ends, and respond lets its exception through: the
\* handler ends there, with nothing sent
ProviderReturn_Raise(h, ok) ==
    /\ hs[h].pc = "call"
    /\ LET c == hs[h].chat
           resp == ReplyText(hs[h].messages)
       IN /\ memory' = [memory EXCEPT ![c] = RespondEnd(@, ok, resp)]
          /\ hist' = [hist EXCEPT ![c] = RespondEnd(@, ok, resp)]
          /\ hs' = [hs EXCEPT ![h].pc = "done",
                              ![h].outcome = IF ok THEN "reply" ELSE "raised",
                              ![h].resp = IF ok THEN resp ELSE ""]
    /\ UNCHANGED <<usage, pro_groups, usage_file, pro_file, provider, day,
                   nEvents, recorded, requests>>

\* the provider call of a suspended respond ends: with a response respond
\* can read (ok), or with an exception (refused, timed out, malformed)
ProviderReturn(h, ok) ==
    /\ hs[h].pc = "call"
    /\ LET c == hs[h].chat
           resp == ReplyText(hs[h].messages)
       IN /\ memory' = [memory EXCEPT ![c] = RespondEnd(@, ok, resp)]
          /\ hist' = [hist EXCEPT ![c] = RespondEnd(@, ok, resp)]
          /\ hs' = [hs EXCEPT ![h].pc = "done",
                              ![h].outcome = IF ok THEN "reply" ELSE "raised",
                              ![h].resp = IF ok THEN resp ELSE Fallback]
    /\ UNCHANGED <<usage, pro_groups, usage_file, pro_file, provider, day,
                   nEvents, recorded, requests>>

\* midnight UTC passes
Tick ==
    /\ day < MaxDay
    /\ day' = day + 1
    /\ UNCHANGED <<usage, pro_groups, usage_file, pro_file, memory, provider,
                   hs, nEvents, recorded, hist, requests>>

\* UsageTracker._load
Loaded(f, load(_), empty) == IF f.exists THEN load(f) ELSE empty

\* the process is stopped and started again: module level, lines 201-203
Restart ==
    /\ usage' = Loaded(usage_file, LoadUsage, <<>>)
    /\ pro_groups' = Loaded(pro_file, LoadPro, {})
    /\ memory' = [c \in Chats |-> <<>>]
    /\ hist' = [c \in Chats |-> <<>>]
    /\ hs' = [h \in Handlers |-> Idle]
    /\ UNCHANGED <<usage_file, pro_file, provider, day, nEvents, recorded,
                   requests>>

-----------------------------------------------------------------------------
(* The bot, started in an empty data directory *)

Init ==
    /\ usage_file = NoFile
    /\ pro_file = NoFile
    /\ usage = Loaded(usage_file, LoadUsage, <<>>)
    /\ pro_groups = Loaded(pro_file, LoadPro, {})
    /\ memory = [c \in Chats |-> <<>>]
    /\ provider \in Providers
    /\ day = 0
    /\ hs = [h \in Handlers |-> Idle]
    /\ nEvents = 0
    /\ recorded = [k \in Chats \X (0..MaxDay) |-> 0]
    /\ hist = [c \in Chats |-> <<>>]
    /\ requests = [c \in Chats |-> 0]

\* who writes in chat c: its owner in the private chat, anyone in the group
Senders(c) == IF c = PrivateChat THEN {OtherUser} ELSE Users

\* the texts of the updates delivered: /ask without and with a question
AskTexts == {<<"/ask">>, <<"/ask", Word(nEvents + 1)>>}
\* private texts: a question, or a "/" text no command filter matches
PrivateTexts == {<<Word(nEvents + 1)>>, <<"/foo">>}
\* group texts <<words, is a reply to the bot>>: plain, a reply to the bot,
\* a mention with a question, a bare mention
GroupTexts == {<<<<Word(nEvents + 1)>>, FALSE>>,
               <<<<Word(nEvents + 1)>>, TRUE>>,
               <<<<Mention, Word(nEvents + 1)>>, FALSE>>,
               <<<<Mention>>, FALSE>>}
\* /admin_pro alone, with a word that is no number, with a chat id
AdminProTexts == {<<"/admin_pro">>, <<"/admin_pro", "abc">>}
                     \cup {<<"/admin_pro", Str(g)>> : g \in Chats}

Next ==
    \/ \E h \in Handlers, c \in Chats, words \in AskTexts :
          /\ nEvents < MaxEvents
          /\ \E u \in Senders(c) : CmdAsk(h, c, u, words)
    \/ \E h \in Handlers, words \in PrivateTexts :
          /\ nEvents < MaxEvents
          /\ PrivateText(h, OtherUser, words)
    \/ \E h \in Handlers, t \in GroupTexts :
          /\ nEvents < MaxEvents
          /\ GroupText(h, OtherUser, t[1], t[2])
    \/ \E h \in Handlers, u \in Users, words \in AdminProTexts :
          /\ nEvents < MaxEvents
          /\ CmdAdminPro(h, u, words)
    \/ \E h \in Handlers : GroupTextResume(h)
    \/ \E h \in Handlers, ok \in BOOLEAN : ProviderReturn(h, ok)
    \/ Tick
    \/ Restart

Spec == Init /\ [][Next]_vars

-----------------------------------------------------------------------------
(* The running bot with its awaits completing, under the updates that ask *)
(* for an answer.  urlopen is called with timeout=30, so a pending         *)
(* provider call returns or raises; bot.me() answers (aiogram caches it    *)
(* after the first call).                                                  *)

NextLive ==
    \/ \E h \in Handlers, c \in Chats :
          /\ nEvents < MaxEvents
          /\ CmdAsk(h, c, OtherUser, <<"/ask", Word(nEvents + 1)>>)
    \/ \E h \in Handlers :
          /\ nEvents < MaxEvents
          /\ PrivateText(h, OtherUser, <<Word(nEvents + 1)>>)
    \/ \E h \in Handlers, t \in GroupTexts :
          /\ nEvents < MaxEvents
          /\ GroupText(h, OtherUser, t[1], t[2])
    \/ \E h \in Handlers : GroupTextResume(h)
    \/ \E h \in Handlers, ok \in BOOLEAN : ProviderReturn(h, ok)
    \/ Tick

SpecLive ==
    /\ Init
    /\ [][NextLive]_vars
    /\ \A h \in Handlers :
           /\ WF_vars(GroupTextResume(h))
           /\ WF_vars(\E ok \in BOOLEAN : ProviderReturn(h, ok))

-----------------------------------------------------------------------------
(* The bot with its two statistics commands: the updates that change what  *)
(* get_stats reads (/ask with a question, the operator's /admin_pro) and   *)
(* /stats and /admin_stats themselves.                                     *)

NextStats ==
    \/ \E h \in Handlers, c \in Chats :
          /\ nEvents < MaxEvents
          /\ CmdAsk(h, c, OtherUser, <<"/ask", Word(nEvents + 1)>>)
    \/ \E h \in Handlers, g \in Chats :
          /\ nEvents < MaxEvents
          /\ CmdAdminPro(h, ADMIN_ID, <<"/admin_pro", Str(g)>>)
    \/ \E h \in Handlers, c \in Chats :
          /\ nEvents < MaxEvents
          /\ CmdStats(h, c, OtherUser)
    \/ \E h \in Handlers, u \in Users :
          /\ nEvents < MaxEvents
          /\ CmdAdminStats(h, u)
    \/ \E h \in Handlers, ok \in BOOLEAN : ProviderReturn(h, ok)
    \/ Tick
    \/ Restart

SpecStats == Init /\ [][NextStats]_vars

-----------------------------------------------------------------------------------------------------------------------------------------------------
(* The bot some way into a busy day of the group chat, which an earlier    *)
(* /admin_pro made pro: the state after PastExchanges(k) completed /ask    *)
(* exchanges there, reached with respond's own steps; in the states with   *)
(* a pending call, the first /ask of the run still awaits its provider     *)
(* while the k exchanges after it have completed.                          *)

\* the text of the i-th earlier /ask
PastWord(i) == "p" \o ToString(i)

\* what a finished respond stored as its answer
PastAnswer(turns) ==
    IF Supported THEN ReplyText(BuildMessages(turns)) ELSE UnknownProvider

\* the chat's memory after k more completed exchanges
RECURSIVE PastExchanges(_, _)
PastExchanges(turns, k) ==
    IF k = 0 THEN turns
    ELSE LET asked == UserAppended(PastExchanges(turns, k - 1), "User",
                                   PastWord(k))
         IN AssistantAppended(asked, PastAnswer(asked))

\* every turn those exchanges appended
RECURSIVE PastTurns(_, _)
PastTurns(turns, k) ==
    IF k = 0 THEN turns
    ELSE LET asked == UserAppended(PastExchanges(turns, k - 1), "User",
                                   PastWord(k))
         IN PastTurns(turns, k - 1)
                \o <<UserTurn("User", PastWord(k)),
                      AssistantTurn(PastAnswer(asked))>>

\* the table after n calls of record(chat_id) on one day
RECURSIVE RecordedTimes(_, _, _, _)
RecordedTimes(u, chat_id, today, n) ==
    IF n = 0 THEN u
    ELSE Recorded(RecordedTimes(u, chat_id, today, n - 1), chat_id, today)

InitMem ==
    \E k \in 0..MaxPast, pending \in BOOLEAN :
    LET first == IF pending
                 THEN UserAppended(<<>>, "User", PastWord(0)) ELSE <<>>
        n == k + (IF pending THEN 1 ELSE 0)
    IN
    /\ provider \in Providers
    /\ pending => Supported
    /\ n <= MaxPast
    /\ day = MaxDay
    /\ pro_groups = AddPro({}, GroupChat)
    /\ pro_file = [exists |-> TRUE, text |-> <<Str(GroupChat)>>]
    /\ usage = RecordedTimes(<<>>, GroupChat, Today, n)
    /\ usage_file = IF n = 0 THEN NoFile ELSE DumpUsage(usage)
    /\ memory = [c \in Chats |->
                   IF c = GroupChat THEN PastExchanges(first, k) ELSE <<>>]
    /\ hist = [c \in Chats |->
                 IF c = GroupChat THEN PastTurns(first, k) ELSE <<>>]
    /\ hs = [h \in Handlers |->
               IF pending /\ h = 1
               THEN [Got("cmd_ask", GroupChat, OtherUser,
                        <<"/ask", PastWord(0)>>)
                       EXCEPT !.pc = "call",
                                 !.user_name = "User", !.message = PastWord(0),
                                 !.group_name = "Team",
                                 !.messages = BuildMessages(first)]
               ELSE Idle]
    /\ nEvents = 0
    /\ recorded = [key \in Chats \X (0..MaxDay) |->
                     IF key = <<GroupChat, day>> THEN n ELSE 0]
    /\ requests = [c \in Chats |->
                     IF c = GroupChat /\ Supported THEN n ELSE 0]

NextMem ==
    \/ \E h \in Handlers, c \in Chats :
          /\ nEvents < MaxCalls
          /\ CmdAsk(h, c, OtherUser, <<"/ask", Word(nEvents + 1)>>)
    \/ \E h \in Handlers, ok \in BOOLEAN : ProviderReturn(h, ok)

SpecMem == InitMem /\ [][NextMem]_vars

-----------------------------------------------------------------------------
(* Properties *)

\* a handler has answered an update of chat c with a quota notice
Rejected(c) ==
    \E h \in Handlers :
        hs[h].pc = "done" /\ hs[h].chat = c /\ hs[h].resp \in QuotaNotices

\* C1: for a chat that is not pro, once record has been called FREE_LIMIT
\* times on the current UTC day can_use returns (false, 0); before that it
\* returns (true, FREE_LIMIT - count); allowed is true exactly when
\* remaining > 0.
C1_QuotaExhaustedAtLimit ==
    \A c \in Chats :
        Str(c) \notin pro_groups =>
            LET n == recorded[<<c, day>>]
                r == can_use(c)
            IN /\ n = FREE_LIMIT => r = <<FALSE, 0>>
               /\ n < FREE_LIMIT => r = <<TRUE, FREE_LIMIT - n>>
               /\ r[1] <=> r[2] > 0

\* C1 witness: a chat that is not pro has used its whole quota today and
\* the next attempt is being answered with the quota notice.
C1_Witness ==
    \E c \in Chats :
        /\ Str(c) \notin pro_groups
        /\ recorded[<<c, day>>] = FREE_LIMIT
        /\ Rejected(c)

\* C2: while a chat is in the pro set can_use returns (true, 999) whatever
\* its counter, and the chat stays in the pro set, so from add_pro on the
\* answer is (true, 999) in every later state.
C2_ProAlwaysAllowed ==
    [][\A c \in Chats :
          Str(c) \in pro_groups =>
              /\ can_use(c) = <<TRUE, 999>>
              /\ Str(c) \in pro_groups'
              /\ can_use(c)' = <<TRUE, 999>>]_vars

\* C2 witness: a pro chat whose counter for today has reached the limit.
C2_Witness ==
    \E c \in Chats :
        /\ Str(c) \in pro_groups
        /\ Get(usage, Key(c, Today), 0) >= FREE_LIMIT
        /\ can_use(c) = <<TRUE, 999>>

\* the step in which handler h, run for an update that asks for a reply,
\* comes to its quota check: /ask with a question, text in the private
\* chat, a group message that mentions the bot or replies to it
ComesToCheck(h) ==
    \/ /\ Free(h)
       /\ hs'[h] # hs[h]
       /\ hs'[h].kind = "cmd_ask"
       /\ Len(hs'[h].words) > 1
    \/ /\ Free(h)
       /\ hs'[h] # hs[h]
       /\ hs'[h].kind = "handle_message"
       /\ hs'[h].chat = PrivateChat
    \/ /\ hs[h].pc = "me"
       /\ hs'[h].pc \notin {"me", "idle"}
       /\ \/ hs[h].reply_to_bot
          \/ \E i \in DOMAIN hs[h].words : hs[h].words[i] = Mention

\* C6: when a handler run for a reply-triggering update finds can_use
\* reporting the chat's quota exhausted, it sends the quota notice and that
\* is all: respond is not called (no request, no turn appended, memory as
\* it was) and no usage is recorded.
C6_ExhaustedStopsAtNotice ==
    [][\A h \in Handlers :
          (ComesToCheck(h) /\ ~can_use(hs'[h].chat)[1]) =>
              /\ hs'[h].pc = "done"
              /\ hs'[h].resp \in QuotaNotices
              /\ hs'[h].messages = <<>>
              /\ UNCHANGED <<usage, usage_file, recorded, memory, hist,
                             requests>>]_vars

\* C6 witness: the group chat is out of quota and the handler of a group
\* message that addressed the bot has sent the quota notice.
C6_Witness ==
    \E h \in Handlers :
        /\ hs[h].pc = "done"
        /\ hs[h].kind = "handle_message"
        /\ hs[h].chat = GroupChat
        /\ hs[h].resp = GroupQuotaNotice
        /\ ~can_use(GroupChat)[1]

\* C8: the count stored for a chat and a day is the number of record calls
\* made for that chat on that day; a step that records adds 1 under that
\* one key, leaves every other key as it was and leaves the pro set alone.
C8_RecordCountsExactly ==
    [][/\ \A c \in Chats, d \in 0..MaxDay :
             Get(usage', Key(c, DateStr(d)), 0) = recorded'[<<c, d>>]
       /\ \A c \in Chats, d \in 0..MaxDay :
             recorded'[<<c, d>>] # recorded[<<c, d>>] =>
                 /\ Get(usage', Key(c, DateStr(d)), 0)
                        = Get(usage, Key(c, DateStr(d)), 0) + 1
                 /\ DOMAIN usage' = DOMAIN usage \cup {Key(c, DateStr(d))}
                 /\ \A k \in DOMAIN usage :
                        k # Key(c, DateStr(d)) => usage'[k] = usage[k]
                 /\ pro_groups' = pro_groups]_vars

\* C8 witness: record has been called FREE_LIMIT times for one chat on one
\* day and once for the same chat on the day before, and the table holds
\* both counts.
C8_Witness ==
    \E c \in Chats :
        /\ day > 0
        /\ recorded[<<c, day>>] = FREE_LIMIT
        /\ Get(usage, Key(c, Today), 0) = FREE_LIMIT
        /\ recorded[<<c, day - 1>>] = 1
        /\ Get(usage, Key(c, DateStr(day - 1)), 0) = 1

\* a record call was made for chat c on a day before today, none today
FreshDay(c) ==
    /\ \E d \in 0..MaxDay : d < day /\ recorded[<<c, d>>] > 0
    /\ recorded[<<c, day>>] = 0

\* C9 as claimed: whatever was recorded for a chat on an earlier day, as
\* long as nothing is recorded for it today can_use returns
\* (true, FREE_LIMIT).
C9_NewDayFullQuota ==
    \A c \in Chats : FreshDay(c) => can_use(c) = <<TRUE, FREE_LIMIT>>

\* C9 as amended: for a chat that is not in the pro set, whatever was
\* recorded for it on an earlier day, as long as nothing is recorded for it
\* today can_use returns (true, FREE_LIMIT); a pro chat gets (true, 999).
C9_NewDayFullQuotaUnlessPro ==
    \A c \in Chats :
        FreshDay(c) =>
            can_use(c) = IF Str(c) \in pro_groups
                         THEN <<TRUE, 999>> ELSE <<TRUE, FREE_LIMIT>>

\* C9 witness: a chat that is not pro used its whole quota yesterday and
\* has recorded nothing today.
C9_Witness ==
    \E c \in Chats :
        /\ Str(c) \notin pro_groups
        /\ day > 0
        /\ recorded[<<c, day - 1>>] = FREE_LIMIT
        /\ recorded[<<c, day>>] = 0
        /\ can_use(c) = <<TRUE, FREE_LIMIT>>

\* the assistant turns among turns
NAssistant(turns) ==
    Cardinality({i \in DOMAIN turns : turns[i].role = "assistant"})

\* turn is one of turns
InSeq(turn, turns) == \E i \in DOMAIN turns : turns[i] = turn

\* C3: in every reachable state the memory of each chat holds at most
\* max_memory (20) turns.
C3_MemoryCapped ==
    \A c \in Chats : Len(memory[c]) <= max_memory

\* C4: an assistant turn is appended to a chat's memory only by a respond
\* whose provider call has answered: a step that appends one is the return
\* of a pending call with a reply.
C4_AssistantOnlyAfterReply ==
    [][\A c \in Chats :
          NAssistant(hist'[c]) > NAssistant(hist[c]) =>
              \E h \in Handlers :
                  /\ hs[h].pc = "call"
                  /\ hs[h].chat = c
                  /\ hs'[h].outcome = "reply"]_vars

\* the step in which the provider call of handler h raises
Raises(h) == hs[h].pc = "call" /\ hs'[h].outcome = "raised"

\* the user turn handler h's respond appended before its call
OwnTurn(h) == UserTurn(hs[h].user_name, hs[h].message)

\* C5 as claimed: when the provider call raises, respond returns the
\* fallback string to its caller (which goes on to send it), appends no
\* assistant turn, and the user turn it appended is in memory.
C5_FailureKeepsUserTurn ==
    [][\A h \in Handlers :
          Raises(h) =>
              LET c == hs[h].chat
              IN /\ hs'[h].pc = "done"
                 /\ hs'[h].resp = Fallback
                 /\ NAssistant(hist'[c]) = NAssistant(hist[c])
                 /\ InSeq(OwnTurn(h), memory'[c])]_vars

\* C5 as amended: when the provider call raises, respond returns the
\* fallback string, appends no assistant turn and leaves the chat's memory
\* as it is; the user turn it appended is in memory unless max_memory or
\* more turns were appended to the chat after it while the call was pending.
C5_FailureLeavesMemory ==
    [][\A h \in Handlers :
          Raises(h) =>
              LET c == hs[h].chat
              IN /\ hs'[h].pc = "done"
                 /\ hs'[h].resp = Fallback
                 /\ NAssistant(hist'[c]) = NAssistant(hist[c])
                 /\ memory'[c] = memory[c]
                 /\ \E i \in DOMAIN hist[c] :
                        /\ hist[c][i] = OwnTurn(h)
                        /\ Len(hist[c]) - i < max_memory
                               => InSeq(OwnTurn(h), memory'[c])]_vars

\* C5 witness: a call has raised, its handler has sent the fallback, and
\* the user turn of that call is the newest turn in the chat's memory.
C5_Witness ==
    \E h \in Handlers :
        /\ hs[h].outcome = "raised"
        /\ hs[h].pc = "done"
        /\ hs[h].resp = Fallback
        /\ Len(memory[hs[h].chat]) > 0
        /\ memory[hs[h].chat][Len(memory[hs[h].chat])] = OwnTurn(h)

\* s is the tail of t: the last Len(s) entries of t, in t's order
IsTail(s, t) ==
    /\ Len(s) <= Len(t)
    /\ \A i \in 1..Len(s) : s[i] = t[Len(t) - Len(s) + i]

\* C7: the memory of each chat is a contiguous suffix, in append order, of
\* all the turns ever appended for the chat: what the cap drops is the
\* oldest turns, and nothing is reordered.
C7_MemoryIsTailOfHistory ==
    \A c \in Chats : IsTail(memory[c], hist[c])

\* C7 witness: the cap has dropped turns of a chat, more than one, and the
\* memory still ends with the newest turn.
C7_Witness ==
    \E c \in Chats :
        /\ Len(hist[c]) > Len(memory[c]) + 1
        /\ Len(memory[c]) >= max_memory
        /\ memory[c][Len(memory[c])] = hist[c][Len(hist[c])]

\* the conversation entries of a posted body: all but the system entry
Posted(body) == SelectSeq(body.messages, LAMBDA m : m.role # "system")

\* C10: the messages respond hands to the provider call are the last
\* min(10, stored) turns of the chat's memory, oldest first, the turn just
\* appended last, each formatted by its role; they are the conversation
\* entries of the posted body.
C10_ContextIsLastTen ==
    [][\A h \in Handlers :
          (hs[h].pc # "call" /\ hs'[h].pc = "call") =>
              LET mem == memory'[hs'[h].chat]
                  msgs == hs'[h].messages
                  n == Min(10, Len(mem))
              IN /\ Len(msgs) = n
                 /\ n <= 10
                 /\ \A i \in 1..n :
                        LET m == mem[Len(mem) - n + i]
                        IN /\ msgs[i].role = m.role
                           /\ msgs[i].content =
                                 IF m.role = "user"
                                 THEN "[" \o m.name \o "]: " \o m.content
                                 ELSE m.content
                 /\ mem[Len(mem)] = OwnTurn(h)'
                 /\ Posted(Payload(provider,
                                   SystemPrompt(hs'[h].group_name), msgs))
                        = msgs]_vars

\* C10 witness: a pending call whose messages are 10 entries taken from a
\* memory that holds more than 10 turns.
C10_Witness ==
    \E h \in Handlers :
        /\ hs[h].pc = "call"
        /\ Len(hs[h].messages) = 10
        /\ Len(memory[hs[h].chat]) > 10
        /\ nEvents > 0

\* the step in which handler h calls ai.respond: it runs up to respond's
\* await, or through it when no provider is called
CallsRespond(h) ==
    /\ hs[h].pc \in {"idle", "done", "me"}
    /\ hs'[h] # hs[h]
    /\ hs'[h].messages # <<>>

\* record calls made for chat c, over all days
RecordedFor(c) ==
    LET RECURSIVE Upto(_)
        Upto(d) == IF d < 0 THEN 0 ELSE recorded[<<c, d>>] + Upto(d - 1)
    IN Upto(MaxDay)

\* C11: a respond call posts exactly one request when the provider is
\* "anthropic" or "openai" and none otherwise: requests go out only in the
\* step that calls respond, one per call; a call that raises is not posted
\* again, its handler gets the fallback; with any other provider value no
\* request goes out and respond returns the unknown-provider string.
C11_OneRequestPerRespond ==
    [][/\ \A c \in Chats :
             requests'[c] - requests[c] =
                 Cardinality({h \in Handlers :
                                 CallsRespond(h) /\ hs'[h].chat = c /\ Supported})
       /\ \A h \in Handlers :
             CallsRespond(h) =>
                 IF Supported
                 THEN hs'[h].pc = "call"
                 ELSE /\ hs'[h].pc = "done"
                      /\ hs'[h].resp = UnknownProvider
       /\ \A h \in Handlers :
             (hs[h].pc = "call" /\ hs'[h] # hs[h]) =>
                 /\ hs'[h].pc \in {"done", "idle"}
                 /\ hs'[h].outcome = "raised" => hs'[h].resp = Fallback
       /\ \A c \in Chats :
             requests'[c] = IF Supported THEN RecordedFor(c)' ELSE 0]_vars

\* C11 witness: the one call made for a chat has raised, its handler has
\* the fallback, and one request went out for the chat.
C11_Witness ==
    \E h \in Handlers :
        /\ hs[h].pc = "done"
        /\ hs[h].outcome = "raised"
        /\ hs[h].resp = Fallback
        /\ RecordedFor(hs[h].chat) = 1
        /\ requests[hs[h].chat] = 1

\* C12: the pro set changes only in the step of an /admin_pro <chat_id>
\* update sent by the operator (ADMIN_ID), which adds that chat id; no step
\* of any other update, of any other sender, of a pending handler, of the
\* clock or of a restart changes it, and no step removes a member.
C12_ProSetOnlyByOperator ==
    [][/\ pro_groups \subseteq pro_groups'
       /\ pro_groups' # pro_groups =>
             \E h \in Handlers :
                 /\ Free(h)
                 /\ nEvents' = nEvents + 1
                 /\ hs'[h].kind = "cmd_admin_pro"
                 /\ hs'[h].from_user = ADMIN_ID
                 /\ Len(hs'[h].words) >= 2
                 /\ pro_groups' = pro_groups \cup {hs'[h].words[2]}]_vars

\* C12 witness: the operator has made both chats pro, and the third update
\* delivered has left the set as it was.
C12_Witness ==
    /\ pro_groups = {Str(c) : c \in Chats}
    /\ \E h \in Handlers :
           hs[h].kind = "cmd_admin_pro" /\ hs[h].from_user = ADMIN_ID
    /\ nEvents > Cardinality(pro_groups)

\* the update a handler with locals loc runs for mentions the bot or
\* replies to one of its messages
Addressed(loc) ==
    \/ loc.reply_to_bot
    \/ \E i \in DOMAIN loc.words : loc.words[i] = Mention

\* C13: a group message that neither mentions the bot nor replies to one
\* of its messages is ignored: neither step of its handler (up to bot.me(),
\* and from there to its return) changes the usage table, its file, the pro
\* set, its file or any chat's memory, records usage, posts a request or
\* appends a turn, and the handler returns without sending anything.
C13_UnaddressedGroupTextIgnored ==
    [][\A h \in Handlers :
          /\ (Free(h) /\ hs'[h].pc = "me" /\ ~Addressed(hs'[h])) =>
                 UNCHANGED <<usage, usage_file, pro_groups, pro_file, memory,
                             hist, recorded, requests>>
          /\ (hs[h].pc = "me" /\ ~Addressed(hs[h])
                  /\ hs'[h].pc \notin {"me", "idle"}) =>
                 /\ hs'[h].pc = "done"
                 /\ hs'[h].resp = ""
                 /\ hs'[h].messages = <<>>
                 /\ UNCHANGED <<usage, usage_file, pro_groups, pro_file,
                                memory, hist, recorded, requests>>]_vars

\* C13 witness: the handler of a group message that did not address the
\* bot has returned without a reply, in a group that has quota left and
\* whose memory holds turns of an earlier exchange.
C13_Witness ==
    \E h \in Handlers :
        /\ hs[h].pc = "done"
        /\ hs[h].kind = "handle_message"
        /\ hs[h].chat = GroupChat
        /\ ~Addressed(hs[h])
        /\ hs[h].resp = ""
        /\ can_use(GroupChat)[1]
        /\ Len(memory[GroupChat]) > 0

\* record calls made so far, over all chats and days
RecordedEver ==
    LET RECURSIVE Sum(_)
        Sum(cs) == IF cs = {} THEN 0
                   ELSE LET c == CHOOSE x \in cs : TRUE
                        IN RecordedFor(c) + Sum(cs \ {c})
    IN Sum(Chats)

\* the chats record was called for on day d
RecordedOn(d) == {c \in Chats : recorded[<<c, d>>] > 0}

\* C14: in every state get_stats reports as total_messages the number of
\* record calls ever made, pro chats included, and as active_groups_today
\* the number of chats record was called for on the current UTC day; /stats
\* and /admin_stats answer with these two numbers.
C14_StatsTotals ==
    [][/\ get_stats(Today)'.total_messages = RecordedEver'
       /\ get_stats(Today)'.active_groups_today = Cardinality(RecordedOn(day))'
       /\ \A h \in Handlers :
             (Free(h) /\ hs'[h] # hs[h] /\ hs'[h].kind = "cmd_stats") =>
                 \E status \in {"Pro"} \cup
                        {"Free (" \o ToString(r) \o "/" \o ToString(FREE_LIMIT)
                             \o " remaining today)" : r \in 0..FREE_LIMIT} :
                     hs'[h].resp =
                         StatsText(status,
                                   [active_groups_today |->
                                        Cardinality(RecordedOn(day))',
                                    total_messages |-> RecordedEver'])
       /\ \A h \in Handlers :
             (Free(h) /\ hs'[h] # hs[h] /\ hs'[h].kind = "cmd_admin_stats") =>
                 hs'[h].resp =
                     AdminStatsText([active_groups_today |->
                                         Cardinality(RecordedOn(day))',
                                     total_messages |-> RecordedEver',
                                     pro_groups |-> Cardinality(pro_groups')],
                                    MemoryGroups')]_vars

\* C14 witness: /stats has been answered after record calls on two days,
\* with a total of 2 and one chat active today.
C14_Witness ==
    \E h \in Handlers, r \in 0..FREE_LIMIT :
        /\ hs[h].pc = "done"
        /\ hs[h].kind = "cmd_stats"
        /\ day > 0
        /\ RecordedOn(day - 1) # {}
        /\ RecordedOn(day) # {}
        /\ hs[h].resp =
               StatsText("Free (" \o ToString(r) \o "/" \o ToString(FREE_LIMIT)
                             \o " remaining today)",
                         [active_groups_today |-> 1, total_messages |-> 2])

\* handlers h1 and h2 run at once for one chat, each past its record and
\* awaiting its provider, both records made today
BothRecorded(h1, h2) ==
    /\ h1 # h2
    /\ hs[h1].pc = "call"
    /\ hs[h2].pc = "call"
    /\ hs[h1].chat = hs[h2].chat
    /\ recorded[<<hs[h1].chat, day>>] >= 2

\* C15 as claimed: two handlers that run at once for one chat and have
\* both recorded usage on the same day leave the stored counter of that
\* day below the number of record calls (an update is lost).
C15_ConcurrentRecordsUnderCount ==
    \A h1, h2 \in Handlers :
        BothRecorded(h1, h2) =>
            Get(usage, Key(hs[h1].chat, Today), 0)
                < recorded[<<hs[h1].chat, day>>]

\* C15 as amended: no interleaving of handlers loses an update.  A handler
\* is never suspended between can_use and record nor inside record, so in
\* every state, also with two handlers of one chat in flight, the stored
\* counter of each chat and day, in the table and in its file, is the
\* number of record calls made for them.
C15_NoLostUpdate ==
    \A c \in Chats, d \in 0..MaxDay :
        /\ Get(usage, Key(c, DateStr(d)), 0) = recorded[<<c, d>>]
        /\ Get(Loaded(usage_file, LoadUsage, <<>>), Key(c, DateStr(d)), 0)
               = recorded[<<c, d>>]

\* C15 witness: two handlers of one chat have both recorded today and both
\* await their provider; the stored counter is 2.
C15_Witness ==
    \E h1, h2 \in Handlers :
        /\ BothRecorded(h1, h2)
        /\ recorded[<<hs[h1].chat, day>>] = 2
        /\ Get(usage, Key(hs[h1].chat, Today), 0) = 2

\* the text of a user turn as respond hands it to the provider
Asked(turn) == "[" \o turn.name \o "]: " \o turn.content

\* C16: respond calls for one chat are not serialized.  Whatever calls are
\* pending for the chat, the step that calls respond puts its user turn at
\* the end of the chat's memory, and the step in which a call's answer
\* arrives puts the answer to that call's own question at the end, behind
\* every turn stored since: turns lie in the order of the appends, not
\* paired by call.
C16_TurnsInAppendOrder ==
    [][\A h \in Handlers :
          /\ (CallsRespond(h) /\ Supported) =>
                 LET c == hs'[h].chat
                 IN /\ hs'[h].pc = "call"
                    /\ memory'[c] =
                           UserAppended(memory[c], hs'[h].user_name,
                                        hs'[h].message)
                    /\ memory'[c][Len(memory'[c])] = OwnTurn(h)'
          /\ (hs[h].pc = "call" /\ hs'[h].outcome = "reply") =>
                 LET c == hs[h].chat
                 IN /\ hs'[h].resp = "re " \o Asked(OwnTurn(h))
                    /\ memory'[c] =
                           Append(memory[c], AssistantTurn(hs'[h].resp))]_vars

\* C16 witness: a chat's memory holds the user turns of two updates back
\* to back, then the answer to the later one, then the answer to the
\* earlier one.
C16_Witness ==
    \E c \in Chats :
        LET m == memory[c]
        IN /\ Len(m) = 4
           /\ m[1].role = "user"
           /\ m[2].role = "user"
           /\ m[3] = AssistantTurn("re " \o Asked(m[2]))
           /\ m[4] = AssistantTurn("re " \o Asked(m[1]))
           /\ m[1] # m[2]

\* C17: every update admitted past the quota check gets a reply.  The
\* step that admits it calls respond; with no provider to call the handler
\* replies at once, otherwise its call is pending and, the call returning
\* or raising, the handler comes to reply: with the provider's text when
\* the call answered, with the fallback string when it raised, respond
\* letting no exception through.
C17_AdmittedGetsReply ==
    /\ [][\A h \in Handlers :
             /\ CallsRespond(h) =>
                    \/ hs'[h].pc = "call"
                    \/ hs'[h].pc = "done" /\ hs'[h].resp # ""
             /\ (hs[h].pc = "call" /\ hs'[h] # hs[h]) =>
                    /\ hs'[h].pc = "done"
                    /\ hs'[h].outcome \in {"reply", "raised"}
                    /\ hs'[h].resp = IF hs'[h].outcome = "reply"
                                     THEN ReplyText(hs[h].messages)
                                     ELSE Fallback]_vars
    /\ \A h \in Handlers :
           (hs[h].pc = "call") ~> (hs[h].pc = "done" /\ hs[h].resp # "")

\* C17 witness: a group message that mentioned the bot was admitted, its
\* provider call raised, and its handler has replied with the fallback.
C17_Witness ==
    \E h \in Handlers :
        /\ hs[h].pc = "done"
        /\ hs[h].kind = "handle_message"
        /\ hs[h].chat = GroupChat
        /\ Addressed(hs[h])
        /\ hs[h].outcome = "raised"
        /\ hs[h].resp = Fallback

\* the count stored for chat c, over all days
StoredFor(c) ==
    LET RECURSIVE Upto(_)
        Upto(d) == IF d < 0 THEN 0
                   ELSE Get(usage, Key(c, DateStr(d)), 0) + Upto(d - 1)
    IN Upto(MaxDay)

\* the calls pending for chat c
Pending(c) == {h \in Handlers : hs[h].pc = "call" /\ hs[h].chat = c}

\* C18: usage is recorded before respond is called and is never given
\* back.  The step in which a handler calls respond has added 1 to the
\* chat's counter of the day and saved it, so whenever a request is out the
\* counter already holds its unit; no step lowers a stored count, and the
\* step in which a call raises leaves the table and its file as they are.
C18_RecordedBeforeCallNeverRefunded ==
    [][/\ \A h \in Handlers :
             CallsRespond(h) =>
                 LET key == Key(hs'[h].chat, DateStr(day'))
                 IN /\ Get(usage', key, 0) = Get(usage, key, 0) + 1
                    /\ usage_file' = DumpUsage(usage')
       /\ \A c \in Chats : Cardinality(Pending(c)') <= StoredFor(c)'
       /\ \A k \in DOMAIN usage :
             k \in DOMAIN usage' /\ usage'[k] >= usage[k]
       /\ \A h \in Handlers :
             Raises(h) => UNCHANGED <<usage, usage_file, recorded>>]_vars

\* C18 witness: the one call made for a chat that is not pro has raised,
\* and the chat has one unit less left for the day.
C18_Witness ==
    \E h \in Handlers :
        /\ hs[h].pc = "done"
        /\ hs[h].outcome = "raised"
        /\ Str(hs[h].chat) \notin pro_groups
        /\ recorded[<<hs[h].chat, day>>] = 1
        /\ requests[hs[h].chat] = 1
        /\ can_use(hs[h].chat) = <<TRUE, FREE_LIMIT - 1>>

\* C19: for a chat that is not in the pro set (the set only grows, so it
\* never was) and every day, however the running handlers interleave at
\* their awaits, the record-and-respond calls made for the chat on that
\* day, the requests they posted and the stored counter never exceed
\* FREE_LIMIT.
C19_QuotaNeverExceeded ==
    \A c \in Chats :
        Str(c) \notin pro_groups =>
            /\ \A d \in 0..MaxDay :
                   /\ recorded[<<c, d>>] <= FREE_LIMIT
                   /\ Get(usage, Key(c, DateStr(d)), 0) <= FREE_LIMIT
            /\ requests[c] <= FREE_LIMIT * (day + 1)

\* C19 witness: for a chat that is not pro, one admitted handler still
\* awaits its provider, FREE_LIMIT calls are recorded for today, and
\* another handler has answered a further update with the quota notice.
C19_Witness ==
    \E h1, h2 \in Handlers :
        LET c == hs[h1].chat
        IN /\ h1 # h2
           /\ hs[h1].pc = "call"
           /\ Str(c) \notin pro_groups
           /\ recorded[<<c, day>>] = FREE_LIMIT
           /\ Get(usage, Key(c, Today), 0) = FREE_LIMIT
           /\ hs[h2].pc = "done"
           /\ hs[h2].chat = c
           /\ hs[h2].resp \in QuotaNotices

\* the step is a restart of the process: handlers were there and none is
\* left
Restarts ==
    /\ \E h \in Handlers : hs[h].pc # "idle"
    /\ \A h \in Handlers : hs'[h].pc = "idle"

\* C20: after every step, record and add_pro among them, the usage file
\* holds the usage table and the pro file holds the pro set, so a restart,
\* which reloads both, comes up with the same table and the same set and
\* can_use answers for every chat as it did before; the conversation
\* memory of every chat is empty after the restart.
C20_RestartKeepsQuotaState ==
    [][/\ Loaded(usage_file, LoadUsage, <<>>)' = usage'
       /\ Loaded(pro_file, LoadPro, {})' = pro_groups'
       /\ Restarts =>
             /\ usage' = usage
             /\ pro_groups' = pro_groups
             /\ \A c \in Chats : can_use(c)' = can_use(c)
             /\ \A c \in Chats : memory'[c] = <<>>]_vars

\* C20 witness: the process has been restarted with a pro chat, a used-up
\* quota of a chat that is not pro and turns in memory; it is up again
\* with the pro set and the counters as they were and no memory.
C20_Witness ==
    /\ \A h \in Handlers : hs[h].pc = "idle"
    /\ \A c \in Chats : memory[c] = <<>>
    /\ pro_groups # {}
    /\ \E c \in Chats :
           /\ recorded[<<c, day>>] = FREE_LIMIT
           /\ can_use(c) = <<FALSE, 0>>

====
